---- MODULE Spec2Model ----
(***************************************************************************)
(* goq: a job queue on a list-based broker (src/goq.go).                   *)
(*                                                                         *)
(* Producers call Enqueue (RPush of the payload, then Set of the initial   *)
(* status).  Run starts `concurrency` workers and then loops on a blocking *)
(* pop, forwarding every payload into the buffered channel jobChannel.     *)
(* A worker receives a payload, derives the job id, loads the status and   *)
(* calls the Processor, which may call SetStatus / GetStatus on the Job.   *)
(*                                                                         *)
(* Every broker call (RPush, BLPop, Get, Set) is one atomic step; the      *)
(* steps of different goroutines interleave freely.                        *)
(***************************************************************************)
EXTENDS Integers, Sequences, FiniteSets, TLC

\* ------------------------------------------------------------------ bounds

\* Enqueue calls whose push succeeds, over all producers.
MaxEnqueue == 3

\* The same, in the runs with two workers and in those with QueueStatus calls.
MaxEnqueuePool == 2

\* Broker faults (failed RPush / BLPop / Get / Set, or a foreign client
\* overwriting a status key) the environment may inject.
MaxFaults == 1

\* Capacity of jobChannel in the model.  The program allocates
\* make(chan string, 1000) (src/goq.go:62); the model scales it down so that
\* the full-buffer cases are reached.
JobChannelCap == 1

\* The same, in the runs that look at the order inside the channel.
BufferCap == 2

\* SetStatus / GetStatus calls one Processor invocation makes at most.
MaxProcCalls == 2

\* The largest uint8: Options.Concurrency and Run's counter i are uint8.
MaxUint8 == 255

\* Values of Options.Concurrency the model runs with (a uint8 in the code).
ConcurrencyValues == 0..1

\* Worker slots: the values the spawn counter i of Run can take.
WorkerIds == 0..1

\* Goroutines calling Enqueue.
Producers == {"p1"}

\* Payloads (jobJSON) as byte strings: "{}" and "[]".
PayloadA == <<123, 125>>
PayloadB == <<91, 93>>
Payloads == {PayloadA, PayloadB}

\* Payloads of the identity computations: every byte string of at most
\* MaxIdLen bytes over IdBytes, and the payloads above.
MaxIdLen == 3
IdBytes == {0, 8, 255}
IdPayloads ==
  UNION {[1..k -> IdBytes] : k \in 0..MaxIdLen} \cup Payloads

\* (code, progress) pairs a Processor passes to SetStatus.
StatusArgs == {<<1, 100>>, <<255, 0>>}

\* ------------------------------------------------------------- data types

Nil == "nil"

\* What the store holds for a key that does not exist (no value a client
\* writes).
Absent == <<"(absent)">>

JOB_STATUS_PREFIX == "goq:queue:job:status:"

Status(c, p) == [Code |-> c, Progress |-> p]

NoInst == [json |-> <<>>, n |-> 0]

NoJob == [ID |-> <<>>, JSON |-> <<>>, Status |-> Status(0, 0)]

\* --------------------------------------------------------------- base32

Alphabet ==
  << "A", "B", "C", "D", "E", "F", "G", "H", "I", "J", "K", "L", "M",
     "N", "O", "P", "Q", "R", "S", "T", "U", "V", "W", "X", "Y", "Z",
     "2", "3", "4", "5", "6", "7" >>

Pow2(k) == CASE k = 0 -> 1 [] k = 1 -> 2 [] k = 2 -> 4 [] k = 3 -> 8
             [] k = 4 -> 16 [] k = 5 -> 32 [] k = 6 -> 64 [] k = 7 -> 128

\* Bit k (1-based, most significant bit of the first byte first) of the
\* byte string; 0 past its end (the zero padding of the last quantum).
BitAt(bytes, k) ==
  IF k > 8 * Len(bytes) THEN 0
  ELSE (bytes[((k - 1) \div 8) + 1] \div Pow2(7 - ((k - 1) % 8))) % 2

\* Mutant of Quintet: the lowest bit of the group is left out.
QuintetHigh(bytes, j) ==
  16 * BitAt(bytes, 5 * j - 4) + 8 * BitAt(bytes, 5 * j - 3)
  + 4 * BitAt(bytes, 5 * j - 2) + 2 * BitAt(bytes, 5 * j - 1)

\* The j-th 5-bit group of the byte string.
Quintet(bytes, j) ==
  16 * BitAt(bytes, 5 * j - 4) + 8 * BitAt(bytes, 5 * j - 3)
  + 4 * BitAt(bytes, 5 * j - 2) + 2 * BitAt(bytes, 5 * j - 1)
  + BitAt(bytes, 5 * j)

\* base32.StdEncoding.EncodeToString: RFC 4648 alphabet, '=' padding to a
\* multiple of 8 characters.
Base32Encode(bytes) ==
  LET nchars == (8 * Len(bytes) + 4) \div 5
      outlen == 8 * ((Len(bytes) + 4) \div 5)
  IN  [j \in 1..outlen |->
         IF j <= nchars THEN Alphabet[Quintet(bytes, j) + 1] ELSE "="]

\* id := base32.StdEncoding.EncodeToString([]byte(jobJSON))
JobID(jobJSON) == Base32Encode(jobJSON)

\* JOB_STATUS_PREFIX + id
StatusKey(id) == <<JOB_STATUS_PREFIX>> \o id

Keys == {StatusKey(JobID(P)) : P \in Payloads}

\* ----------------------------------------------------------------- JSON

DigitChars == <<"0", "1", "2", "3", "4", "5", "6", "7", "8", "9">>

IsDigit(t) == \E d \in 1..10 : DigitChars[d] = t

DigitVal(t) == (CHOOSE d \in 1..10 : DigitChars[d] = t) - 1

\* Decimal digits of a number, most significant first.
RECURSIVE Digits(_)
Digits(n) ==
  IF n < 10 THEN <<DigitChars[n + 1]>>
  ELSE Digits(n \div 10) \o <<DigitChars[(n % 10) + 1]>>

\* Mutant of Marshal: the two values are written under each other's key.
MarshalSwapped(st) ==
  <<"{", "Code", ":">> \o Digits(st.Progress)
  \o <<",", "Progress", ":">> \o Digits(st.Code) \o <<"}">>

\* json.Marshal(&Status{...}): {"Code":c,"Progress":p} as a token string.
Marshal(st) ==
  <<"{", "Code", ":">> \o Digits(st.Code)
  \o <<",", "Progress", ":">> \o Digits(st.Progress) \o <<"}">>

\* The run of digits of text starting at position i: its end (exclusive).
RECURSIVE DigitsEnd(_, _)
DigitsEnd(text, i) ==
  IF i <= Len(text) /\ IsDigit(text[i]) THEN DigitsEnd(text, i + 1) ELSE i

RECURSIVE NumVal(_, _, _)
NumVal(text, i, j) ==
  IF i >= j THEN 0 ELSE 10 * NumVal(text, i, j - 1) + DigitVal(text[j - 1])

SyntaxError == [ok |-> FALSE, ms |-> <<>>]

\* The members of a JSON object, scanned from position i (just after "{" or
\* ","): [ok, ms] with ms a sequence of <<key, value>>; ok is FALSE on
\* malformed text.  A number has no leading zero.
RECURSIVE ScanMembers(_, _, _)
ScanMembers(text, i, acc) ==
  IF i + 2 > Len(text) \/ text[i] \in {"{", "}", ":", ","} \/ IsDigit(text[i])
     \/ text[i + 1] # ":"
  THEN SyntaxError
  ELSE LET j == DigitsEnd(text, i + 2)
           member == <<text[i], NumVal(text, i + 2, j)>>
       IN  IF j = i + 2 \/ (j > i + 3 /\ text[i + 2] = "0") \/ j > Len(text)
           THEN SyntaxError
           ELSE IF text[j] = "}"
                THEN (IF j = Len(text)
                      THEN [ok |-> TRUE, ms |-> Append(acc, member)]
                      ELSE SyntaxError)
                ELSE IF text[j] = ","
                     THEN ScanMembers(text, j + 1, Append(acc, member))
                     ELSE SyntaxError

ParseObject(text) ==
  IF Len(text) < 2 \/ text[1] # "{" THEN SyntaxError
  ELSE IF Len(text) = 2
       THEN (IF text[2] = "}" THEN [ok |-> TRUE, ms |-> <<>>] ELSE SyntaxError)
       ELSE ScanMembers(text, 2, <<>>)

\* Storing the members one after the other into a Status: a value that does
\* not fit a uint8 leaves the field alone and is reported, the other fields
\* are still stored; unknown keys are skipped.
RECURSIVE StoreMembers(_, _, _)
StoreMembers(ms, k, r) ==
  IF k > Len(ms) THEN r
  ELSE LET key == ms[k][1]
           val == ms[k][2]
           fits == val <= 255
           st1 == IF key = "Code" /\ fits
                  THEN [r.st EXCEPT !.Code = val]
                  ELSE IF key = "Progress" /\ fits
                       THEN [r.st EXCEPT !.Progress = val]
                       ELSE r.st
           err1 == IF key \in {"Code", "Progress"} /\ ~fits /\ r.err = Nil
                   THEN "type" ELSE r.err
       IN  StoreMembers(ms, k + 1, [err |-> err1, st |-> st1])

\* Mutant of Unmarshal: malformed text is not reported.
UnmarshalLenient(text, st) ==
  LET parsed == ParseObject(text)
  IN  IF ~parsed.ok THEN [err |-> Nil, st |-> st]
      ELSE StoreMembers(parsed.ms, 1, [err |-> Nil, st |-> st])

\* json.Unmarshal([]byte(text), st): [err, st].  Malformed text changes nothing.
Unmarshal(text, st) ==
  LET parsed == ParseObject(text)
  IN  IF ~parsed.ok THEN [err |-> "syntax", st |-> st]
      ELSE StoreMembers(parsed.ms, 1, [err |-> Nil, st |-> st])

\* Values a foreign client of the broker may leave under a status key: cut
\* short, a number that is no uint8, and an object without Progress.
ForeignValues ==
  { <<"{", "Code", ":", "1">>,
    <<"{", "Code", ":", "3", "0", "0", ",", "Progress", ":", "7", "}">>,
    <<"{", "Code", ":", "5", "}">> }

\* ---------------------------------------------------------------- state

\* Connection parameters a caller may pass to New.
ConnOpts == {"addrA", "addrB"}

\* Goroutines calling New.
NewCallers == {"n1", "n2", "n3"}

\* What Options.Processor does with a Job: "setDone" calls
\* job.SetStatus(1, 100) and returns; "any" makes up to MaxProcCalls calls of
\* SetStatus / GetStatus, in any order, and returns.
ProcessorKinds == {"setDone", "any"}

VARIABLES
  client,       \* the package variable client: Nil or the connection's parameters
  newClients,   \* the parameters of every redis.NewClient call so far, in order
  newc,         \* per caller of New: where it is, its options, the Queue it got
  list,         \* the broker list q.queueName: payload instances, head first
  store,        \* the broker's keys JOB_STATUS_PREFIX+id: a value, or Absent
  jobChannel,   \* q.jobChannel: the payloads sent and not yet received
  concurrency,  \* q.concurrency
  processor,    \* q.processor, as a ProcessorKinds
  prod,         \* per producer: where its Enqueue call is, its argument, its result
  disp,         \* Run: where it is, the spawn counter i, the payload popped
  wk,           \* per worker goroutine: where it is, its locals, its Job
  outcomes,     \* <<n, "proc" | "err">> per Processor / errorHandler call of workers
  popErrs,      \* errorHandler calls made by Run's loop
  pushed,       \* successful RPush calls so far (numbers the payload instances)
  enqueueBudget,\* successful RPush calls the producers may still make
  faultBudget,  \* faults the environment may still inject
  pops,         \* the instance numbers Run's BLPop has returned, in order
  spawned,      \* `go work(...)` statements Run has executed
  qs,           \* what the last QueueStatus call returned
  ident,        \* two payloads and the ids computed from them (lines 115, 146)
  capacity      \* cap(q.jobChannel)

vars ==
  << client, newClients, newc, list, store, jobChannel, concurrency, processor,
     prod, disp, wk, outcomes, popErrs, pushed, enqueueBudget, faultBudget,
     pops, spawned, qs, ident, capacity >>

newVars == << client, newClients, newc >>

queueVars ==
  << list, store, jobChannel, concurrency, processor, prod, disp, wk, outcomes,
     popErrs, pushed, enqueueBudget, faultBudget, pops, spawned, qs, ident,
     capacity >>

\* The variables only QueueStatus calls and the identity computations write,
\* and the capacity of the channel, which nothing changes once it is made.
sideVars == << qs, ident, capacity >>

\* qs before any QueueStatus call: no result yet.
NoResult == [called |-> FALSE, QueueLength |-> 0, err |-> Nil]

\* ident when no identity is being computed.
NoIdent == [a |-> <<>>, b |-> <<>>, enq |-> Absent, wrk |-> Absent]

\* len0 is the length of the list when the call in progress began.
IdleProducer ==
  [pc |-> "idle", jobJSON |-> <<>>, n |-> 0, len0 |-> 0, id |-> <<>>, err |-> Nil]

IdleWorker ==
  [pc |-> "off", jobJSON |-> <<>>, n |-> 0, job |-> NoJob, calls |-> 0,
   op |-> "none", err |-> Nil]

\* A worker at the top of its loop: its locals of the last iteration are dead.
ReadyWorker == [IdleWorker EXCEPT !.pc = "recv"]

\* The state once one New call has returned the Queue: the connection exists,
\* nothing is on the list, no status is stored, Run has not been called.
Init ==
  /\ client = "addrA"
  /\ newClients = <<"addrA">>
  /\ newc = [c \in NewCallers |->
               IF c = "n1" THEN [pc |-> "done", opt |-> "addrA", saw |-> Nil]
               ELSE [pc |-> "idle", opt |-> Nil, saw |-> Nil]]
  /\ list = <<>>
  /\ store = [k \in Keys |-> Absent]
  /\ jobChannel = <<>>
  /\ concurrency \in ConcurrencyValues
  /\ processor = "any"
  /\ prod = [p \in Producers |-> IdleProducer]
  /\ disp = [pc |-> "idle", i |-> 0, held |-> NoInst]
  /\ wk = [w \in WorkerIds |-> IdleWorker]
  /\ outcomes = <<>>
  /\ popErrs = 0
  /\ pushed = 0
  /\ enqueueBudget = MaxEnqueue
  /\ faultBudget = MaxFaults
  /\ pops = <<>>
  /\ spawned = 0
  /\ qs = NoResult
  /\ ident = NoIdent
  /\ capacity = JobChannelCap

\* ------------------------------------------------------------------- New

\* New, line 45: the read of client in `if client == nil`.
NewCheck(c, opt) ==
  /\ newc[c].pc = "idle"
  /\ newc' = [newc EXCEPT ![c] = [pc |-> (IF client = Nil THEN "create" ELSE "return"),
                                  opt |-> opt, saw |-> client]]
  /\ UNCHANGED << client, newClients >>
  /\ UNCHANGED queueVars

\* New, lines 46-58: client = redis.NewClient(redisOpt).
NewCreate(c) ==
  /\ newc[c].pc = "create"
  /\ client' = newc[c].opt
  /\ newClients' = Append(newClients, newc[c].opt)
  /\ newc' = [newc EXCEPT ![c].pc = "return"]
  /\ UNCHANGED queueVars

\* New, lines 61-67: return &Queue{...}.
NewReturn(c) ==
  /\ newc[c].pc = "return"
  /\ newc' = [newc EXCEPT ![c].pc = "done"]
  /\ UNCHANGED << client, newClients >>
  /\ UNCHANGED queueVars

\* --------------------------------------------------------------- Enqueue

\* Mutant of QueueStatus: the length counts the payloads Run has popped and
\* not yet handed to a worker as well.
QueueStatusInFlight ==
  IF client # Nil
  THEN [QueueLength |-> Len(list) + Len(jobChannel) + (IF disp.pc = "send" THEN 1 ELSE 0),
        err |-> Nil]
  ELSE [QueueLength |-> 0, err |-> "Failed to queue status: no initialized client"]

\* QueueStatus when the length query succeeds, or no client exists (then the
\* *QueueStatus returned is nil: QueueLength 0 stands for it).
QueueStatus ==
  IF client # Nil THEN [QueueLength |-> Len(list), err |-> Nil]
  ELSE [QueueLength |-> 0, err |-> "Failed to queue status: no initialized client"]

\* A call of QueueStatus returns: lines 83-94 with LLen answering, or with
\* client == nil.
QueueStatusReturn ==
  /\ qs' = [called |-> TRUE, QueueLength |-> QueueStatus.QueueLength,
            err |-> QueueStatus.err]
  /\ UNCHANGED << list, store, jobChannel, concurrency, processor, prod, disp, wk,
                  outcomes, popErrs, pushed, enqueueBudget, faultBudget >>
  /\ UNCHANGED newVars
  /\ UNCHANGED << pops, spawned, ident, capacity >>

\* A call of QueueStatus, lines 84-87, LLen fails: return nil, err.
QueueStatusLenErr ==
  /\ client # Nil
  /\ faultBudget > 0
  /\ faultBudget' = faultBudget - 1
  /\ qs' = [called |-> TRUE, QueueLength |-> 0, err |-> "llen"]
  /\ UNCHANGED << list, store, jobChannel, concurrency, processor, prod, disp, wk,
                  outcomes, popErrs, pushed, enqueueBudget >>
  /\ UNCHANGED newVars
  /\ UNCHANGED << pops, spawned, ident, capacity >>

\* Mutant of RPush: the payload goes to the head (an LPush).
RPushFront(l, inst) == <<inst>> \o l

\* client.RPush(q.queueName, jobJSON): the payload goes to the tail.
RPush(l, inst) == Append(l, inst)

\* Enqueue, line 101, the push succeeds.
EnqueuePushOK(p, P) ==
  /\ client # Nil
  /\ prod[p].pc = "idle"
  /\ enqueueBudget > 0
  /\ enqueueBudget' = enqueueBudget - 1
  /\ pushed' = pushed + 1
  /\ list' = RPush(list, [json |-> P, n |-> pushed + 1])
  /\ prod' = [prod EXCEPT ![p] = [pc |-> "pushed", jobJSON |-> P, n |-> pushed + 1,
                                  len0 |-> Len(list), id |-> <<>>, err |-> Nil]]
  /\ UNCHANGED << store, jobChannel, concurrency, processor, disp, wk, outcomes,
                  popErrs, faultBudget >>
  /\ UNCHANGED newVars
  /\ UNCHANGED << pops, spawned >>
  /\ UNCHANGED sideVars

\* Enqueue, lines 101-104, the push fails: return "", err.
EnqueuePushErr(p, P) ==
  /\ client # Nil
  /\ prod[p].pc = "idle"
  /\ faultBudget > 0
  /\ faultBudget' = faultBudget - 1
  /\ prod' = [prod EXCEPT ![p] = [pc |-> "idle", jobJSON |-> P, n |-> 0,
                                  len0 |-> 0, id |-> <<>>, err |-> "push"]]
  /\ UNCHANGED << list, store, jobChannel, concurrency, processor, disp, wk,
                  outcomes, popErrs, pushed, enqueueBudget >>
  /\ UNCHANGED newVars
  /\ UNCHANGED << pops, spawned >>
  /\ UNCHANGED sideVars

\* The value Enqueue stores as the initial status.
InitialStatusJSON == Marshal(Status(0, 0))

\* Enqueue, lines 107-122, the set succeeds: return id, nil.
EnqueueSetOK(p) ==
  /\ prod[p].pc = "pushed"
  /\ \E id \in {JobID(prod[p].jobJSON)} :
       /\ store' = [store EXCEPT ![StatusKey(id)] = InitialStatusJSON]
       /\ prod' = [prod EXCEPT ![p].pc = "idle", ![p].len0 = 0, ![p].id = id,
                                ![p].err = Nil]
  /\ UNCHANGED << list, jobChannel, concurrency, processor, disp, wk, outcomes,
                  popErrs, pushed, faultBudget, enqueueBudget >>
  /\ UNCHANGED newVars
  /\ UNCHANGED << pops, spawned >>
  /\ UNCHANGED sideVars

\* Mutant of EnqueueSetErr: the push is rolled back (the payload is removed
\* from the list if it is still there).
EnqueueSetErrRollback(p) ==
  /\ prod[p].pc = "pushed"
  /\ faultBudget > 0
  /\ faultBudget' = faultBudget - 1
  /\ list' = SelectSeq(list, LAMBDA x : x.n # prod[p].n)
  /\ prod' = [prod EXCEPT ![p].pc = "idle", ![p].len0 = 0, ![p].id = <<>>,
                              ![p].err = "set"]
  /\ UNCHANGED << store, jobChannel, concurrency, processor, disp, wk,
                  outcomes, popErrs, pushed, enqueueBudget >>
  /\ UNCHANGED newVars
  /\ UNCHANGED << pops, spawned >>
  /\ UNCHANGED sideVars

\* Enqueue, lines 117-120, the set fails: return "", err.
EnqueueSetErr(p) ==
  /\ prod[p].pc = "pushed"
  /\ faultBudget > 0
  /\ faultBudget' = faultBudget - 1
  /\ prod' = [prod EXCEPT ![p].pc = "idle", ![p].len0 = 0, ![p].id = <<>>,
                              ![p].err = "set"]
  /\ UNCHANGED << list, store, jobChannel, concurrency, processor, disp, wk,
                  outcomes, popErrs, pushed, enqueueBudget >>
  /\ UNCHANGED newVars
  /\ UNCHANGED << pops, spawned >>
  /\ UNCHANGED sideVars

\* ------------------------------------------------------------------- Run

\* Run is called (once, on the one Queue).
RunStart ==
  /\ client # Nil
  /\ disp.pc = "idle"
  /\ disp' = [disp EXCEPT !.pc = "spawn", !.i = 0]
  /\ UNCHANGED << list, store, jobChannel, concurrency, processor, prod, wk,
                  outcomes, popErrs, pushed, faultBudget, enqueueBudget >>
  /\ UNCHANGED newVars
  /\ UNCHANGED << pops, spawned >>
  /\ UNCHANGED sideVars

\* Mutant of RunSpawn: the loop condition is i <= q.concurrency.
RunSpawnInclusive ==
  /\ disp.pc = "spawn"
  /\ disp.i <= concurrency
  /\ spawned < 2 * MaxUint8
  /\ wk' = IF disp.i \in WorkerIds THEN [wk EXCEPT ![disp.i] = ReadyWorker] ELSE wk
  /\ spawned' = spawned + 1
  /\ disp' = [disp EXCEPT !.i = (disp.i + 1) % 256]
  /\ UNCHANGED << list, store, jobChannel, concurrency, processor, prod, outcomes,
                  popErrs, pushed, faultBudget, enqueueBudget >>
  /\ UNCHANGED newVars
  /\ UNCHANGED pops
  /\ UNCHANGED sideVars

\* Mutant of RunSpawn: the first iteration starts a worker in every slot,
\* whatever q.concurrency is.
RunSpawnAll ==
  /\ disp.pc = "spawn"
  /\ disp.i < concurrency
  /\ wk' = IF disp.i = 0 THEN [w \in WorkerIds |-> ReadyWorker] ELSE wk
  /\ spawned' = spawned + 1
  /\ disp' = [disp EXCEPT !.i = (disp.i + 1) % 256]
  /\ UNCHANGED << list, store, jobChannel, concurrency, processor, prod, outcomes,
                  popErrs, pushed, faultBudget, enqueueBudget >>
  /\ UNCHANGED newVars
  /\ UNCHANGED pops
  /\ UNCHANGED sideVars

\* Run, lines 126-128: go work(...); i++ on a uint8.  The workers with a
\* slot in WorkerIds are followed step by step, the others are only counted.
RunSpawn ==
  /\ disp.pc = "spawn"
  /\ disp.i < concurrency
  /\ wk' = IF disp.i \in WorkerIds THEN [wk EXCEPT ![disp.i] = ReadyWorker] ELSE wk
  /\ spawned' = spawned + 1
  /\ disp' = [disp EXCEPT !.i = (disp.i + 1) % 256]
  /\ UNCHANGED << list, store, jobChannel, concurrency, processor, prod, outcomes,
                  popErrs, pushed, faultBudget, enqueueBudget >>
  /\ UNCHANGED newVars
  /\ UNCHANGED pops
  /\ UNCHANGED sideVars

\* Run, line 126, i < q.concurrency is false: on to the pop loop.
RunLoop ==
  /\ disp.pc = "spawn"
  /\ ~(disp.i < concurrency)
  /\ disp' = [disp EXCEPT !.pc = "pop"]
  /\ UNCHANGED << list, store, jobChannel, concurrency, processor, prod, wk,
                  outcomes, popErrs, pushed, faultBudget, enqueueBudget >>
  /\ UNCHANGED newVars
  /\ UNCHANGED << pops, spawned >>
  /\ UNCHANGED sideVars

\* Mutant of BLPop: the tail is popped (a BRPop).
BLPopTail(l) == [value |-> l[Len(l)], rest |-> SubSeq(l, 1, Len(l) - 1)]

\* client.BLPop(0, q.queueName) on a list that is not empty: the head, and
\* the list without it.
BLPop(l) == [value |-> Head(l), rest |-> Tail(l)]

\* Run, line 132, BLPop returns [queueName, head]: it blocks on an empty list.
DispatchPopOK ==
  /\ disp.pc = "pop"
  /\ list # <<>>
  /\ disp' = [disp EXCEPT !.pc = "send", !.held = BLPop(list).value]
  /\ list' = BLPop(list).rest
  /\ pops' = Append(pops, BLPop(list).value.n)
  /\ UNCHANGED << store, jobChannel, concurrency, processor, prod, wk, outcomes,
                  popErrs, pushed, faultBudget, enqueueBudget >>
  /\ UNCHANGED newVars
  /\ UNCHANGED spawned
  /\ UNCHANGED sideVars

\* Mutant of DispatchPopErr: Run returns on a pop error.
DispatchPopErrReturn ==
  /\ disp.pc = "pop"
  /\ faultBudget > 0
  /\ faultBudget' = faultBudget - 1
  /\ popErrs' = popErrs + 1
  /\ disp' = [disp EXCEPT !.pc = "returned"]
  /\ UNCHANGED << list, store, jobChannel, concurrency, processor, prod, wk,
                  outcomes, pushed, enqueueBudget >>
  /\ UNCHANGED newVars
  /\ UNCHANGED << pops, spawned >>
  /\ UNCHANGED sideVars

\* Run, lines 133-136, BLPop fails: q.errorHandler(err); continue.
DispatchPopErr ==
  /\ disp.pc = "pop"
  /\ faultBudget > 0
  /\ faultBudget' = faultBudget - 1
  /\ popErrs' = popErrs + 1
  /\ disp' = [disp EXCEPT !.pc = "pop"]
  /\ UNCHANGED << list, store, jobChannel, concurrency, processor, prod, wk,
                  outcomes, pushed, enqueueBudget >>
  /\ UNCHANGED newVars
  /\ UNCHANGED << pops, spawned >>
  /\ UNCHANGED sideVars

\* Mutant of DispatchSend: a send on a full channel drops the payload (a
\* select with a default case) instead of blocking.
DispatchSendDrop ==
  /\ disp.pc = "send"
  /\ jobChannel' = IF Len(jobChannel) < capacity
                   THEN Append(jobChannel, disp.held) ELSE jobChannel
  /\ disp' = [disp EXCEPT !.pc = "pop", !.held = NoInst]
  /\ UNCHANGED << list, store, concurrency, processor, prod, wk, outcomes, popErrs,
                  pushed, faultBudget, enqueueBudget >>
  /\ UNCHANGED newVars
  /\ UNCHANGED << pops, spawned >>
  /\ UNCHANGED sideVars

\* Mutant of DispatchSend: the payload is put in front of those waiting in
\* the channel.
DispatchSendFront ==
  /\ disp.pc = "send"
  /\ Len(jobChannel) < capacity
  /\ jobChannel' = <<disp.held>> \o jobChannel
  /\ disp' = [disp EXCEPT !.pc = "pop", !.held = NoInst]
  /\ UNCHANGED << list, store, concurrency, processor, prod, wk, outcomes, popErrs,
                  pushed, faultBudget, enqueueBudget >>
  /\ UNCHANGED newVars
  /\ UNCHANGED << pops, spawned >>
  /\ UNCHANGED sideVars

\* Run, line 138: q.jobChannel <- jobJSONSlice[1]; it blocks on a full channel.
DispatchSend ==
  /\ disp.pc = "send"
  /\ Len(jobChannel) < capacity
  /\ jobChannel' = Append(jobChannel, disp.held)
  /\ disp' = [disp EXCEPT !.pc = "pop", !.held = NoInst]
  /\ UNCHANGED << list, store, concurrency, processor, prod, wk, outcomes, popErrs,
                  pushed, faultBudget, enqueueBudget >>
  /\ UNCHANGED newVars
  /\ UNCHANGED << pops, spawned >>
  /\ UNCHANGED sideVars

\* ------------------------------------------------------------------ work

\* errorHandler(err) of a worker for payload instance n.
HandleError(n) == Append(outcomes, <<n, "err">>)

\* processor(job) of a worker for payload instance n.
CallProcessor(n) == Append(outcomes, <<n, "proc">>)

\* Mutant of WorkRecv: the worker reads the head of the channel and leaves
\* it there.
WorkRecvPeek(w) ==
  /\ wk[w].pc = "recv"
  /\ jobChannel # <<>>
  /\ wk' = [wk EXCEPT ![w] = [ReadyWorker EXCEPT !.pc = "get",
                                                 !.jobJSON = Head(jobChannel).json,
                                                 !.n = Head(jobChannel).n]]
  /\ jobChannel' = jobChannel
  /\ UNCHANGED << list, store, concurrency, processor, prod, disp, outcomes,
                  popErrs, pushed, faultBudget, enqueueBudget >>
  /\ UNCHANGED newVars
  /\ UNCHANGED << pops, spawned >>
  /\ UNCHANGED sideVars

\* work, line 144: jobJSON := <-jobChannel; it blocks on an empty channel.
WorkRecv(w) ==
  /\ wk[w].pc = "recv"
  /\ jobChannel # <<>>
  /\ wk' = [wk EXCEPT ![w] = [ReadyWorker EXCEPT !.pc = "get",
                                                 !.jobJSON = Head(jobChannel).json,
                                                 !.n = Head(jobChannel).n]]
  /\ jobChannel' = Tail(jobChannel)
  /\ UNCHANGED << list, store, concurrency, processor, prod, disp, outcomes,
                  popErrs, pushed, faultBudget, enqueueBudget >>
  /\ UNCHANGED newVars
  /\ UNCHANGED << pops, spawned >>
  /\ UNCHANGED sideVars

\* Mutant of WorkGetOK: the worker marks the job as taken when it has loaded
\* the status, writing Code 1 to the store.
WorkGetOKMark(w) ==
  /\ wk[w].pc = "get"
  /\ \E id \in {JobID(wk[w].jobJSON)} :
     \E statusJSON \in {store[StatusKey(id)]} :
     \E r \in {Unmarshal(statusJSON, Status(0, 0))} :
       /\ statusJSON # Absent
       /\ IF r.err # Nil
          THEN /\ outcomes' = HandleError(wk[w].n)
               /\ wk' = [wk EXCEPT ![w] = ReadyWorker]
               /\ store' = store
          ELSE /\ outcomes' = CallProcessor(wk[w].n)
               /\ wk' = [wk EXCEPT ![w].pc = "proc",
                                   ![w].job = [ID |-> id, JSON |-> wk[w].jobJSON,
                                               Status |-> r.st]]
               /\ store' = [store EXCEPT ![StatusKey(id)] =
                              Marshal([r.st EXCEPT !.Code = 1])]
  /\ UNCHANGED << list, jobChannel, concurrency, processor, prod, disp,
                  popErrs, pushed, faultBudget, enqueueBudget >>
  /\ UNCHANGED newVars
  /\ UNCHANGED << pops, spawned >>
  /\ UNCHANGED sideVars

\* work, lines 146-167, the Get returns a value: unmarshal it into a fresh
\* Status; on an error call errorHandler and continue, else build the Job and
\* call the Processor.
WorkGetOK(w) ==
  /\ wk[w].pc = "get"
  /\ \E id \in {JobID(wk[w].jobJSON)} :
     \E statusJSON \in {store[StatusKey(id)]} :
     \E r \in {Unmarshal(statusJSON, Status(0, 0))} :
       /\ statusJSON # Absent
       /\ IF r.err # Nil
          THEN /\ outcomes' = HandleError(wk[w].n)
               /\ wk' = [wk EXCEPT ![w] = ReadyWorker]
          ELSE /\ outcomes' = CallProcessor(wk[w].n)
               /\ wk' = [wk EXCEPT ![w].pc = "proc",
                                   ![w].job = [ID |-> id, JSON |-> wk[w].jobJSON,
                                               Status |-> r.st]]
  /\ UNCHANGED << list, store, jobChannel, concurrency, processor, prod, disp,
                  popErrs, pushed, faultBudget, enqueueBudget >>
  /\ UNCHANGED newVars
  /\ UNCHANGED << pops, spawned >>
  /\ UNCHANGED sideVars

\* work, lines 148-152, the key is absent (Get returns redis.Nil):
\* errorHandler; continue.
WorkGetMissing(w) ==
  /\ wk[w].pc = "get"
  /\ store[StatusKey(JobID(wk[w].jobJSON))] = Absent
  /\ outcomes' = HandleError(wk[w].n)
  /\ wk' = [wk EXCEPT ![w] = ReadyWorker]
  /\ UNCHANGED << list, store, jobChannel, concurrency, processor, prod, disp,
                  popErrs, pushed, faultBudget, enqueueBudget >>
  /\ UNCHANGED newVars
  /\ UNCHANGED << pops, spawned >>
  /\ UNCHANGED sideVars

\* work, lines 148-152, the Get fails: errorHandler; continue.
WorkGetErr(w) ==
  /\ wk[w].pc = "get"
  /\ faultBudget > 0
  /\ faultBudget' = faultBudget - 1
  /\ outcomes' = HandleError(wk[w].n)
  /\ wk' = [wk EXCEPT ![w] = ReadyWorker]
  /\ UNCHANGED << list, store, jobChannel, concurrency, processor, prod, disp,
                  popErrs, pushed, enqueueBudget >>
  /\ UNCHANGED newVars
  /\ UNCHANGED << pops, spawned >>
  /\ UNCHANGED sideVars

\* ------------------------------------------------------- Job, Processor

\* Whether the Processor, where it stands in its run on w's Job, calls
\* SetStatus(c, p).
MayCallSet(w, c, p) ==
  /\ wk[w].pc = "proc"
  /\ \/ processor = "any" /\ wk[w].calls < MaxProcCalls /\ <<c, p>> \in StatusArgs
     \/ processor = "setDone" /\ wk[w].calls = 0 /\ <<c, p>> = <<1, 100>>

MayCallGet(w) ==
  /\ wk[w].pc = "proc"
  /\ processor = "any"
  /\ wk[w].calls < MaxProcCalls

MayReturn(w) ==
  /\ wk[w].pc = "proc"
  /\ processor = "setDone" => wk[w].calls = 1

\* Mutant of SetFields: Progress is not assigned.
SetFieldsCodeOnly(st, code, progress) == [st EXCEPT !.Code = code]

\* SetStatus, lines 178-179: the in-memory Status after the two assignments.
SetFields(st, code, progress) == [st EXCEPT !.Code = code, !.Progress = progress]

\* Mutant of SetStatusOK: a compare-and-set.  The write is refused with an
\* error when the store no longer holds the record the Job last saw.
SetStatusOKGuarded(w, code, progress) ==
  /\ MayCallSet(w, code, progress)
  /\ \E st \in {SetFields(wk[w].job.Status, code, progress)} :
     \E statusJSON \in {Marshal(st)} :
       IF store[StatusKey(wk[w].job.ID)] = Marshal(wk[w].job.Status)
       THEN /\ store' = [store EXCEPT ![StatusKey(wk[w].job.ID)] = statusJSON]
            /\ wk' = [wk EXCEPT ![w].job.Status = st, ![w].calls = @ + 1,
                                ![w].op = "SetStatus", ![w].err = Nil]
       ELSE /\ store' = store
            /\ wk' = [wk EXCEPT ![w].job.Status = st, ![w].calls = @ + 1,
                                ![w].op = "SetStatus", ![w].err = "conflict"]
  /\ UNCHANGED << list, jobChannel, concurrency, processor, prod, disp, outcomes,
                  popErrs, pushed, faultBudget, enqueueBudget >>
  /\ UNCHANGED newVars
  /\ UNCHANGED << pops, spawned >>
  /\ UNCHANGED sideVars

\* SetStatus, the Set succeeds: return nil.
SetStatusOK(w, code, progress) ==
  /\ MayCallSet(w, code, progress)
  /\ \E st \in {SetFields(wk[w].job.Status, code, progress)} :
     \E statusJSON \in {Marshal(st)} :
       /\ store' = [store EXCEPT ![StatusKey(wk[w].job.ID)] = statusJSON]
       /\ wk' = [wk EXCEPT ![w].job.Status = st, ![w].calls = @ + 1,
                           ![w].op = "SetStatus", ![w].err = Nil]
  /\ UNCHANGED << list, jobChannel, concurrency, processor, prod, disp, outcomes,
                  popErrs, pushed, faultBudget, enqueueBudget >>
  /\ UNCHANGED newVars
  /\ UNCHANGED << pops, spawned >>
  /\ UNCHANGED sideVars

\* Mutant of SetStatusErr: the in-memory Status is put back when the Set
\* fails.
SetStatusErrUndo(w, code, progress) ==
  /\ MayCallSet(w, code, progress)
  /\ faultBudget > 0
  /\ faultBudget' = faultBudget - 1
  /\ wk' = [wk EXCEPT ![w].calls = @ + 1, ![w].op = "SetStatus", ![w].err = "set"]
  /\ UNCHANGED << list, store, jobChannel, concurrency, processor, prod, disp,
                  outcomes, popErrs, pushed, enqueueBudget >>
  /\ UNCHANGED newVars
  /\ UNCHANGED << pops, spawned >>
  /\ UNCHANGED sideVars

\* SetStatus, the Set fails: return the error.
SetStatusErr(w, code, progress) ==
  /\ MayCallSet(w, code, progress)
  /\ faultBudget > 0
  /\ faultBudget' = faultBudget - 1
  /\ wk' = [wk EXCEPT ![w].job.Status = SetFields(@, code, progress),
                      ![w].calls = @ + 1, ![w].op = "SetStatus", ![w].err = "set"]
  /\ UNCHANGED << list, store, jobChannel, concurrency, processor, prod, disp,
                  outcomes, popErrs, pushed, enqueueBudget >>
  /\ UNCHANGED newVars
  /\ UNCHANGED << pops, spawned >>
  /\ UNCHANGED sideVars

\* GetStatus, the Get returns a value: return json.Unmarshal(data, j.Status).
GetStatusOK(w) ==
  /\ MayCallGet(w)
  /\ \E dataJSON \in {store[StatusKey(wk[w].job.ID)]} :
     \E r \in {Unmarshal(dataJSON, wk[w].job.Status)} :
       /\ dataJSON # Absent
       /\ wk' = [wk EXCEPT ![w].job.Status = r.st, ![w].calls = @ + 1,
                           ![w].op = "GetStatus", ![w].err = r.err]
  /\ UNCHANGED << list, store, jobChannel, concurrency, processor, prod, disp,
                  outcomes, popErrs, pushed, faultBudget, enqueueBudget >>
  /\ UNCHANGED newVars
  /\ UNCHANGED << pops, spawned >>
  /\ UNCHANGED sideVars

\* GetStatus, lines 190-193, the key is absent (Get returns redis.Nil):
\* return the error.
GetStatusMissing(w) ==
  /\ MayCallGet(w)
  /\ store[StatusKey(wk[w].job.ID)] = Absent
  /\ wk' = [wk EXCEPT ![w].calls = @ + 1, ![w].op = "GetStatus", ![w].err = "redis: nil"]
  /\ UNCHANGED << list, store, jobChannel, concurrency, processor, prod, disp,
                  outcomes, popErrs, pushed, faultBudget, enqueueBudget >>
  /\ UNCHANGED newVars
  /\ UNCHANGED << pops, spawned >>
  /\ UNCHANGED sideVars

\* GetStatus, lines 190-193, the Get fails: return the error.
GetStatusErr(w) ==
  /\ MayCallGet(w)
  /\ faultBudget > 0
  /\ faultBudget' = faultBudget - 1
  /\ wk' = [wk EXCEPT ![w].calls = @ + 1, ![w].op = "GetStatus", ![w].err = "get"]
  /\ UNCHANGED << list, store, jobChannel, concurrency, processor, prod, disp,
                  outcomes, popErrs, pushed, enqueueBudget >>
  /\ UNCHANGED newVars
  /\ UNCHANGED << pops, spawned >>
  /\ UNCHANGED sideVars

\* The Processor returns: the worker goes on to the next receive.
ProcReturn(w) ==
  /\ MayReturn(w)
  /\ wk' = [wk EXCEPT ![w] = ReadyWorker]
  /\ UNCHANGED << list, store, jobChannel, concurrency, processor, prod, disp,
                  outcomes, popErrs, pushed, faultBudget, enqueueBudget >>
  /\ UNCHANGED newVars
  /\ UNCHANGED << pops, spawned >>
  /\ UNCHANGED sideVars

\* ----------------------------------------------------------- environment

\* Another client of the broker overwrites a status key.
ForeignSet(k, v) ==
  /\ faultBudget > 0
  /\ faultBudget' = faultBudget - 1
  /\ store' = [store EXCEPT ![k] = v]
  /\ UNCHANGED << list, jobChannel, concurrency, processor, prod, disp, wk,
                  outcomes, popErrs, pushed, enqueueBudget >>
  /\ UNCHANGED newVars
  /\ UNCHANGED << pops, spawned >>
  /\ UNCHANGED sideVars

\* Another client of the broker deletes a status key.
ForeignDel(k) ==
  /\ faultBudget > 0
  /\ faultBudget' = faultBudget - 1
  /\ store[k] # Absent
  /\ store' = [store EXCEPT ![k] = Absent]
  /\ UNCHANGED << list, jobChannel, concurrency, processor, prod, disp, wk,
                  outcomes, popErrs, pushed, enqueueBudget >>
  /\ UNCHANGED newVars
  /\ UNCHANGED << pops, spawned >>
  /\ UNCHANGED sideVars

\* ------------------------------------------------------- specifications

\* The steps of the program on a broker that answers every call.
CoreNext ==
  \/ \E p \in Producers, P \in Payloads : EnqueuePushOK(p, P)
  \/ \E p \in Producers : EnqueueSetOK(p)
  \/ RunStart
  \/ RunSpawn
  \/ RunLoop
  \/ DispatchPopOK
  \/ DispatchSend
  \/ \E w \in WorkerIds : WorkRecv(w)
  \/ \E w \in WorkerIds : WorkGetOK(w)
  \/ \E w \in WorkerIds : WorkGetMissing(w)
  \/ \E w \in WorkerIds, a \in StatusArgs : SetStatusOK(w, a[1], a[2])
  \/ \E w \in WorkerIds : ProcReturn(w)

\* GetStatus calls of the Processor.
ReadNext == \E w \in WorkerIds : GetStatusOK(w)

\* The steps in which a broker call fails, or a foreign client writes.
FaultNext ==
  \/ \E p \in Producers, P \in Payloads : EnqueuePushErr(p, P)
  \/ \E p \in Producers : EnqueueSetErr(p)
  \/ DispatchPopErr
  \/ \E w \in WorkerIds : WorkGetErr(w)
  \/ \E w \in WorkerIds, a \in StatusArgs : SetStatusErr(w, a[1], a[2])
  \/ \E w \in WorkerIds : GetStatusErr(w)
  \/ \E k \in Keys, v \in ForeignValues : ForeignSet(k, v)

Next == CoreNext \/ ReadNext \/ FaultNext

\* One Queue with one producer, Run with 0 or 1 worker, any Processor, and a
\* broker that may fail MaxFaults times.
Spec == Init /\ [][Next]_vars

\* The scenario of a Processor that calls job.SetStatus(1, 100) and returns,
\* with one worker and a broker that never fails.
LiveInit ==
  /\ client = "addrA"
  /\ newClients = <<"addrA">>
  /\ newc = [c \in NewCallers |->
               IF c = "n1" THEN [pc |-> "done", opt |-> "addrA", saw |-> Nil]
               ELSE [pc |-> "idle", opt |-> Nil, saw |-> Nil]]
  /\ list = <<>>
  /\ store = [k \in Keys |-> Absent]
  /\ jobChannel = <<>>
  /\ concurrency = 1
  /\ processor = "setDone"
  /\ prod = [p \in Producers |-> IdleProducer]
  /\ disp = [pc |-> "idle", i |-> 0, held |-> NoInst]
  /\ wk = [w \in WorkerIds |-> IdleWorker]
  /\ outcomes = <<>>
  /\ popErrs = 0
  /\ pushed = 0
  /\ enqueueBudget = MaxEnqueue
  /\ faultBudget = 0
  /\ pops = <<>>
  /\ spawned = 0
  /\ qs = NoResult
  /\ ident = NoIdent
  /\ capacity = JobChannelCap

\* The steps of a goroutine that is under way: every step of the program but
\* a producer's decision to call Enqueue once more.
Progress ==
  \/ \E p \in Producers : EnqueueSetOK(p)
  \/ RunStart
  \/ RunSpawn
  \/ RunLoop
  \/ DispatchPopOK
  \/ DispatchSend
  \/ \E w \in WorkerIds : WorkRecv(w)
  \/ \E w \in WorkerIds : WorkGetOK(w)
  \/ \E w \in WorkerIds : WorkGetMissing(w)
  \/ \E w \in WorkerIds, a \in StatusArgs : SetStatusOK(w, a[1], a[2])
  \/ \E w \in WorkerIds : ProcReturn(w)

\* The program does not stop while a goroutine under way can take a step (the
\* producers make finitely many calls, so this is all the scheduler is asked
\* for); Run is called.
LiveFairness == WF_vars(Progress)

LiveSpec == LiveInit /\ [][CoreNext]_vars /\ LiveFairness

\* New alone: the goroutines of NewCallers call New, each once, before any
\* Queue is used.
NewInit ==
  /\ client = Nil
  /\ newClients = <<>>
  /\ newc = [c \in NewCallers |-> [pc |-> "idle", opt |-> Nil, saw |-> Nil]]
  /\ list = <<>>
  /\ store = [k \in Keys |-> Absent]
  /\ jobChannel = <<>>
  /\ concurrency = 1
  /\ processor = "any"
  /\ prod = [p \in Producers |-> IdleProducer]
  /\ disp = [pc |-> "idle", i |-> 0, held |-> NoInst]
  /\ wk = [w \in WorkerIds |-> IdleWorker]
  /\ outcomes = <<>>
  /\ popErrs = 0
  /\ pushed = 0
  /\ enqueueBudget = 0
  /\ faultBudget = 0
  /\ pops = <<>>
  /\ spawned = 0
  /\ qs = NoResult
  /\ ident = NoIdent
  /\ capacity = JobChannelCap

NewNext ==
  \/ \E c \in NewCallers, opt \in ConnOpts : NewCheck(c, opt)
  \/ \E c \in NewCallers : NewCreate(c)
  \/ \E c \in NewCallers : NewReturn(c)

NewSpec == NewInit /\ [][NewNext]_vars

\* Run with one worker or with two, any Processor, MaxEnqueuePool payloads and
\* a broker that may fail MaxFaults times.
PoolInit ==
  /\ client = "addrA"
  /\ newClients = <<"addrA">>
  /\ newc = [c \in NewCallers |->
               IF c = "n1" THEN [pc |-> "done", opt |-> "addrA", saw |-> Nil]
               ELSE [pc |-> "idle", opt |-> Nil, saw |-> Nil]]
  /\ list = <<>>
  /\ store = [k \in Keys |-> Absent]
  /\ jobChannel = <<>>
  /\ concurrency \in 1..Cardinality(WorkerIds)
  /\ processor = "any"
  /\ prod = [p \in Producers |-> IdleProducer]
  /\ disp = [pc |-> "idle", i |-> 0, held |-> NoInst]
  /\ wk = [w \in WorkerIds |-> IdleWorker]
  /\ outcomes = <<>>
  /\ popErrs = 0
  /\ pushed = 0
  /\ enqueueBudget = MaxEnqueuePool
  /\ faultBudget = MaxFaults
  /\ pops = <<>>
  /\ spawned = 0
  /\ qs = NoResult
  /\ ident = NoIdent
  /\ capacity = JobChannelCap

PoolSpec == PoolInit /\ [][Next]_vars

\* Run with no worker or one, a channel of BufferCap slots and a broker that
\* never fails: the channel fills up to its capacity.
BufferInit ==
  /\ client = "addrA"
  /\ newClients = <<"addrA">>
  /\ newc = [c \in NewCallers |->
               IF c = "n1" THEN [pc |-> "done", opt |-> "addrA", saw |-> Nil]
               ELSE [pc |-> "idle", opt |-> Nil, saw |-> Nil]]
  /\ list = <<>>
  /\ store = [k \in Keys |-> Absent]
  /\ jobChannel = <<>>
  /\ concurrency \in ConcurrencyValues
  /\ processor = "setDone"
  /\ prod = [p \in Producers |-> IdleProducer]
  /\ disp = [pc |-> "idle", i |-> 0, held |-> NoInst]
  /\ wk = [w \in WorkerIds |-> IdleWorker]
  /\ outcomes = <<>>
  /\ popErrs = 0
  /\ pushed = 0
  /\ enqueueBudget = MaxEnqueue
  /\ faultBudget = 0
  /\ pops = <<>>
  /\ spawned = 0
  /\ qs = NoResult
  /\ ident = NoIdent
  /\ capacity = BufferCap

BufferSpec == BufferInit /\ [][CoreNext]_vars

\* Run alone, for every value of Options.Concurrency, on a Queue with one
\* payload enqueued (Processor: SetStatus(1, 100) and return; no faults).
SpawnInit ==
  /\ client = "addrA"
  /\ newClients = <<"addrA">>
  /\ newc = [c \in NewCallers |->
               IF c = "n1" THEN [pc |-> "done", opt |-> "addrA", saw |-> Nil]
               ELSE [pc |-> "idle", opt |-> Nil, saw |-> Nil]]
  /\ list = << [json |-> PayloadA, n |-> 1] >>
  /\ store = [k \in Keys |->
                IF k = StatusKey(JobID(PayloadA)) THEN InitialStatusJSON ELSE Absent]
  /\ jobChannel = <<>>
  /\ concurrency \in 0..MaxUint8
  /\ processor = "setDone"
  /\ prod = [p \in Producers |->
               [pc |-> "idle", jobJSON |-> PayloadA, n |-> 1, len0 |-> 0,
                id |-> JobID(PayloadA), err |-> Nil]]
  /\ disp = [pc |-> "idle", i |-> 0, held |-> NoInst]
  /\ wk = [w \in WorkerIds |-> IdleWorker]
  /\ outcomes = <<>>
  /\ popErrs = 0
  /\ pushed = 1
  /\ enqueueBudget = 0
  /\ faultBudget = 0
  /\ pops = <<>>
  /\ spawned = 0
  /\ qs = NoResult
  /\ ident = NoIdent
  /\ capacity = JobChannelCap

SpawnNext ==
  \/ RunStart
  \/ RunSpawn
  \/ RunLoop
  \/ DispatchPopOK
  \/ DispatchSend
  \/ \E w \in WorkerIds : WorkRecv(w)
  \/ \E w \in WorkerIds : WorkGetOK(w)
  \/ \E w \in WorkerIds, a \in StatusArgs : SetStatusOK(w, a[1], a[2])
  \/ \E w \in WorkerIds : ProcReturn(w)

\* Run, once called, keeps running (the scheduler does not starve it).
SpawnSpec == SpawnInit /\ [][SpawnNext]_vars /\ WF_vars(RunSpawn \/ RunLoop)

\* One worker whose Processor calls SetStatus and GetStatus, on a store that
\* another client may overwrite or delete a key of, and a broker that may fail
\* (MaxFaults such events in all).
JobInit ==
  /\ client = "addrA"
  /\ newClients = <<"addrA">>
  /\ newc = [c \in NewCallers |->
               IF c = "n1" THEN [pc |-> "done", opt |-> "addrA", saw |-> Nil]
               ELSE [pc |-> "idle", opt |-> Nil, saw |-> Nil]]
  /\ list = <<>>
  /\ store = [k \in Keys |-> Absent]
  /\ jobChannel = <<>>
  /\ concurrency = 1
  /\ processor = "any"
  /\ prod = [p \in Producers |-> IdleProducer]
  /\ disp = [pc |-> "idle", i |-> 0, held |-> NoInst]
  /\ wk = [w \in WorkerIds |-> IdleWorker]
  /\ outcomes = <<>>
  /\ popErrs = 0
  /\ pushed = 0
  /\ enqueueBudget = MaxEnqueuePool
  /\ faultBudget = MaxFaults
  /\ pops = <<>>
  /\ spawned = 0
  /\ qs = NoResult
  /\ ident = NoIdent
  /\ capacity = JobChannelCap

JobNext ==
  \/ Next
  \/ \E k \in Keys : ForeignDel(k)
  \/ \E w \in WorkerIds : GetStatusMissing(w)

JobSpec == JobInit /\ [][JobNext]_vars

\* Enqueue, line 115: the id of payload ident.a.
IdentEnqueue ==
  /\ ident.enq = Absent
  /\ ident' = [ident EXCEPT !.enq = JobID(ident.a)]
  /\ UNCHANGED << list, store, jobChannel, concurrency, processor, prod, disp, wk,
                  outcomes, popErrs, pushed, enqueueBudget, faultBudget >>
  /\ UNCHANGED newVars
  /\ UNCHANGED << pops, spawned, qs, capacity >>

\* work, line 146: the id of payload ident.b.
IdentWork ==
  /\ ident.wrk = Absent
  /\ ident' = [ident EXCEPT !.wrk = JobID(ident.b)]
  /\ UNCHANGED << list, store, jobChannel, concurrency, processor, prod, disp, wk,
                  outcomes, popErrs, pushed, enqueueBudget, faultBudget >>
  /\ UNCHANGED newVars
  /\ UNCHANGED << pops, spawned, qs, capacity >>

\* The identity computations alone: Enqueue computes the id of a payload a,
\* a worker that of a payload b, for every a and b of IdPayloads.
IdentInit ==
  /\ client = "addrA"
  /\ newClients = <<"addrA">>
  /\ newc = [c \in NewCallers |->
               IF c = "n1" THEN [pc |-> "done", opt |-> "addrA", saw |-> Nil]
               ELSE [pc |-> "idle", opt |-> Nil, saw |-> Nil]]
  /\ list = <<>>
  /\ store = [k \in Keys |-> Absent]
  /\ jobChannel = <<>>
  /\ concurrency = 1
  /\ processor = "any"
  /\ prod = [p \in Producers |-> IdleProducer]
  /\ disp = [pc |-> "idle", i |-> 0, held |-> NoInst]
  /\ wk = [w \in WorkerIds |-> IdleWorker]
  /\ outcomes = <<>>
  /\ popErrs = 0
  /\ pushed = 0
  /\ enqueueBudget = 0
  /\ faultBudget = 0
  /\ pops = <<>>
  /\ spawned = 0
  /\ qs = NoResult
  /\ ident \in [a : IdPayloads, b : IdPayloads, enq : {Absent}, wrk : {Absent}]
  /\ capacity = JobChannelCap

IdentNext == IdentEnqueue \/ IdentWork

IdentSpec == IdentInit /\ [][IdentNext]_vars

\* QueueStatus calls at any moment of a program in which one goroutine calls
\* New, a producer enqueues and Run dispatches to one worker; the length
\* query may fail.
StatusInit ==
  /\ client = Nil
  /\ newClients = <<>>
  /\ newc = [c \in NewCallers |-> [pc |-> "idle", opt |-> Nil, saw |-> Nil]]
  /\ list = <<>>
  /\ store = [k \in Keys |-> Absent]
  /\ jobChannel = <<>>
  /\ concurrency = 1
  /\ processor = "setDone"
  /\ prod = [p \in Producers |-> IdleProducer]
  /\ disp = [pc |-> "idle", i |-> 0, held |-> NoInst]
  /\ wk = [w \in WorkerIds |-> IdleWorker]
  /\ outcomes = <<>>
  /\ popErrs = 0
  /\ pushed = 0
  /\ enqueueBudget = MaxEnqueuePool
  /\ faultBudget = MaxFaults
  /\ pops = <<>>
  /\ spawned = 0
  /\ qs = NoResult
  /\ ident = NoIdent
  /\ capacity = JobChannelCap

StatusNext ==
  \/ \E opt \in ConnOpts : NewCheck("n1", opt)
  \/ NewCreate("n1")
  \/ NewReturn("n1")
  \/ CoreNext
  \/ QueueStatusReturn
  \/ QueueStatusLenErr

StatusSpec == StatusInit /\ [][StatusNext]_vars

\* ---------------------------------------------------------------- claims

\* The key of the status record of payload instance with bytes jobJSON.
KeyOf(jobJSON) == StatusKey(JobID(jobJSON))

\* No broker call has failed and no foreign client has written so far.
NoFaultSoFar == faultBudget = MaxFaults

OutcomeNs == [i \in 1..Len(outcomes) |-> outcomes[i][1]]

Ns(insts) == [i \in 1..Len(insts) |-> insts[i].n]

\* The instance numbers of the payloads on their way: received by a worker
\* and not yet handled, in the channel, held by Run, on the list.
InFlightNs ==
  (IF wk[0].pc = "get" THEN <<wk[0].n>> ELSE <<>>)
  \o Ns(jobChannel)
  \o (IF disp.pc = "send" THEN <<disp.held.n>> ELSE <<>>)
  \o Ns(list)

Increasing(ns) == \A i, j \in 1..Len(ns) : i < j => ns[i] < ns[j]

GetAfterSet(w) ==
  /\ GetStatusOK(w)
  /\ wk[w].op = "SetStatus" /\ wk[w].err = Nil
  /\ wk'[w].err = Nil

\* C3, as amended: a successful SetStatus(C, Pr) followed by a successful
\* GetStatus() on the same Job leaves the in-memory Status equal to {C, Pr}
\* provided the store still holds the record SetStatus wrote (no Enqueue of
\* the same payload, SetStatus of another Job of that identity or foreign
\* client has replaced it in between).
C3_RoundTrip ==
  [][ \A w \in WorkerIds :
        (GetAfterSet(w) /\ store[StatusKey(wk[w].job.ID)] = Marshal(wk[w].job.Status))
          => wk'[w].job.Status = wk[w].job.Status ]_vars

\* C3, as stated (and with a broker that has not failed and no foreign
\* write): after a successful SetStatus(C, Pr), a successful GetStatus()
\* leaves the in-memory Status equal to {C, Pr}.
C3_Original ==
  [][ \A w \in WorkerIds :
        (GetAfterSet(w) /\ NoFaultSoFar)
          => wk'[w].job.Status = wk[w].job.Status ]_vars

\* A Processor has called SetStatus(255, 0) and then GetStatus, both without
\* error, and its Job holds {255, 0}, which is what the store holds.
C3_Witness ==
  \E w \in WorkerIds :
    /\ wk[w].pc = "proc" /\ wk[w].calls = 2
    /\ wk[w].op = "GetStatus" /\ wk[w].err = Nil
    /\ wk[w].job.Status = Status(255, 0)
    /\ store[StatusKey(wk[w].job.ID)] = Marshal(Status(255, 0))
    /\ NoFaultSoFar

\* In this step worker w finds that the status of its payload cannot be read:
\* the key is absent, the Get fails, or the value is not valid JSON.
StatusUnreadable(w) ==
  \/ WorkGetMissing(w)
  \/ WorkGetErr(w)
  \/ WorkGetOK(w) /\ ~ParseObject(store[KeyOf(wk[w].jobJSON)]).ok

Count(log, e) == Cardinality({i \in 1..Len(log) : log[i] = e})

\* C4: a worker whose payload's status cannot be read (key absent, Get error,
\* invalid JSON) calls the error handler once for that payload and not the
\* Processor, pushes nothing back (list and channel are unchanged) and is back
\* at its receive; no payload is ever both given to the error handler and to
\* the Processor, nor handled twice.
C4_UnreadableStatus ==
  /\ [][ \A w \in WorkerIds :
           StatusUnreadable(w) =>
             /\ outcomes' = Append(outcomes, <<wk[w].n, "err">>)
             /\ Count(outcomes', <<wk[w].n, "err">>) = 1
             /\ Count(outcomes', <<wk[w].n, "proc">>) = 0
             /\ list' = list /\ jobChannel' = jobChannel
             /\ wk'[w] = ReadyWorker ]_vars
  /\ [](\A n \in 1..pushed :
          Count(outcomes, <<n, "err">>) + Count(outcomes, <<n, "proc">>) <= 1)

\* A payload whose stored status is not valid JSON went to the error handler
\* and the worker then received and handed the next payload to the Processor.
C4_Witness ==
  /\ Len(outcomes) = 2
  /\ outcomes[1][2] = "err" /\ outcomes[2][2] = "proc"
  /\ \E k \in Keys : store[k] # Absent /\ ~ParseObject(store[k]).ok

\* Run holds a popped payload and the channel is full.
Blocked == disp.pc = "send" /\ Len(jobChannel) = capacity

\* C5: while the channel is full, Run can neither send nor pop (a step taken
\* then leaves Run where it is, takes nothing off the list and changes the
\* channel only by a worker's receive); the payload Run holds stays held until
\* the step that appends it to the channel, which is possible as soon as the
\* channel has room; and a full channel disables no step of Enqueue.
C5_Backpressure ==
  /\ [](Blocked => /\ ~ENABLED DispatchSend
                   /\ ~ENABLED DispatchPopOK
                   /\ ~ENABLED DispatchPopErr)
  /\ []((disp.pc = "send" /\ Len(jobChannel) < capacity) => ENABLED DispatchSend)
  /\ [][ Blocked => /\ disp' = disp
                    /\ Len(list') >= Len(list)
                    /\ jobChannel' = jobChannel \/ \E w \in WorkerIds : WorkRecv(w) ]_vars
  /\ [][ disp.pc = "send" => \/ disp' = disp
                             \/ /\ jobChannel' = Append(jobChannel, disp.held)
                                /\ disp'.pc = "pop" ]_vars
  /\ [](Blocked =>
          \A p \in Producers :
            /\ (prod[p].pc = "idle" /\ enqueueBudget > 0)
                 => \A P \in Payloads : ENABLED EnqueuePushOK(p, P)
            /\ prod[p].pc = "pushed" => ENABLED EnqueueSetOK(p))

\* The channel is full, Run holds the next payload, a further payload waits on
\* the list and no worker is at its receive.
C5_Witness ==
  /\ Blocked
  /\ list # <<>>
  /\ \A w \in WorkerIds : wk[w].pc # "recv"
  /\ disp.held.n = jobChannel[Len(jobChannel)].n + 1

\* C6: an Enqueue whose push fails returns "" and the error and changes
\* neither the list nor the store; an Enqueue whose status set fails returns
\* "" and the error, and that step neither takes the payload off the list nor
\* writes to the store.
C6_EnqueueErrors ==
  [][ /\ \A p \in Producers, P \in Payloads :
           EnqueuePushErr(p, P) =>
             /\ prod'[p].pc = "idle" /\ prod'[p].id = <<>> /\ prod'[p].err # Nil
             /\ list' = list /\ store' = store
      /\ \A p \in Producers :
           EnqueueSetErr(p) =>
             /\ prod'[p].pc = "idle" /\ prod'[p].id = <<>> /\ prod'[p].err # Nil
             /\ list' = list /\ store' = store ]_vars

\* An Enqueue has returned the error of its status set: its payload is on the
\* list and there is no status record for it.
C6_Witness ==
  \E p \in Producers :
    /\ prod[p].pc = "idle" /\ prod[p].err = "set" /\ prod[p].id = <<>>
    /\ \E i \in 1..Len(list) : list[i].n = prod[p].n
    /\ store[KeyOf(prod[p].jobJSON)] = Absent

\* This step is a successful SetStatus on a Job whose status key is k.
SetStatusOn(k) ==
  \E w \in WorkerIds, a \in StatusArgs :
    SetStatusOK(w, a[1], a[2]) /\ StatusKey(wk[w].job.ID) = k

\* This step is the status set of an Enqueue whose payload has key k.
EnqueueSetOn(k) ==
  \E p \in Producers : EnqueueSetOK(p) /\ KeyOf(prod[p].jobJSON) = k

\* This step changes the value of an existing status record k.
RecordChanged(k) == store[k] # Absent /\ store'[k] # store[k]

\* C7, as amended: a step of the program changes the stored value of an
\* existing status record only if it is a SetStatus on a Job of that identity,
\* or the status set of a later Enqueue of a payload with the same bytes,
\* which puts {Code:0, Progress:0} back.
C7_StatusWriters ==
  [][ \A k \in Keys :
        (RecordChanged(k) /\ ~\E v \in ForeignValues : ForeignSet(k, v))
          => \/ SetStatusOn(k)
             \/ EnqueueSetOn(k) /\ store'[k] = Marshal(Status(0, 0)) ]_vars

\* C7, as stated (the broker has not failed and no foreign client has
\* written, so the record is the one an Enqueue created): only a SetStatus on
\* a Job of that identity changes the stored value of an existing record.
C7_Original ==
  [][ \A k \in Keys :
        (RecordChanged(k) /\ faultBudget' = MaxFaults) => SetStatusOn(k) ]_vars

\* A Job's SetStatus(1, 100) has succeeded and the store holds {0, 0} again
\* under its key: an Enqueue of the same payload has reset the record.
C7_Witness ==
  \E w \in WorkerIds :
    /\ wk[w].pc = "proc" /\ wk[w].op = "SetStatus" /\ wk[w].err = Nil
    /\ wk[w].job.Status = Status(1, 100)
    /\ store[StatusKey(wk[w].job.ID)] = Marshal(Status(0, 0))
    /\ NoFaultSoFar

IDs == {JobID(P) : P \in Payloads}

\* Enqueue has returned id for payload instance n and Run has not been called.
C8_Enqueued(n, id) ==
  /\ disp.pc = "idle"
  /\ \E p \in Producers :
       prod[p].pc = "idle" /\ prod[p].err = Nil /\ prod[p].n = n /\ prod[p].id = id

\* The Processor runs on payload instance n with Job.ID = id, its SetStatus has
\* returned nil and the store holds {Code:1, Progress:100} for id.
C8_Processed(n, id) ==
  \E w \in WorkerIds :
    /\ wk[w].pc = "proc" /\ wk[w].n = n /\ wk[w].job.ID = id
    /\ wk[w].op = "SetStatus" /\ wk[w].err = Nil
    /\ store[StatusKey(id)] = Marshal(Status(1, 100))

\* C8: with one worker, a broker that does not fail and a Processor that
\* calls job.SetStatus(1, 100) and returns, an Enqueue that returned id before
\* Run was called leads to the Processor running on that payload with Job.ID =
\* id and, after its SetStatus, to {Code:1, Progress:100} stored for id.
C8_Scenario ==
  \A n \in 1..MaxEnqueue, id \in IDs : C8_Enqueued(n, id) ~> C8_Processed(n, id)

\* The Processor has set the status of the first payload, which was enqueued
\* before Run was called (Run has popped nothing else yet).
C8_Witness ==
  /\ \E id \in IDs : C8_Processed(1, id)
  /\ pushed = 1 /\ disp.pc = "pop" /\ outcomes = << <<1, "proc">> >>

\* C9: a failed pop calls the error handler once, sends nothing, takes
\* nothing off the list and leaves Run at its pop; once in its loop Run stays
\* in it; and at its pop Run can pop whenever the list is not empty.
C9_PopLoop ==
  /\ [][ DispatchPopErr =>
           /\ popErrs' = popErrs + 1
           /\ jobChannel' = jobChannel /\ list' = list
           /\ disp'.pc = "pop" /\ disp'.held = NoInst ]_vars
  /\ [][ disp.pc \in {"pop", "send"} => disp'.pc \in {"pop", "send"} ]_vars
  /\ []((disp.pc = "pop" /\ list # <<>>) => ENABLED DispatchPopOK)

\* A pop has failed, the error handler was called, and Run has popped again.
C9_Witness == popErrs = 1 /\ disp.pc = "send" /\ disp.held.n > 0

\* C10: over every interleaving of New calls, redis.NewClient is called at
\* most once and a client that is set is never replaced.
C10_SingleConnection ==
  /\ Len(newClients) <= 1
  /\ \A c \in NewCallers : newc[c].pc = "done" => client = newClients[1]

\* C11: a QueueStatus call returns the current length of the list, which
\* counts the payloads pushed and not yet popped by Run, when the connection
\* exists; the no-initialized-client error when no connection was ever made;
\* the broker's error when the length query fails; and it changes neither the
\* list nor the status store.
C11_QueueStatus ==
  /\ [][ QueueStatusReturn =>
           /\ list' = list /\ store' = store
           /\ IF newClients # <<>>
              THEN /\ qs'.err = Nil
                   /\ qs'.QueueLength = Len(list)
                   /\ qs'.QueueLength = pushed - Len(pops)
              ELSE /\ qs'.err = "Failed to queue status: no initialized client"
                   /\ qs'.QueueLength = 0 ]_vars
  /\ [][ QueueStatusLenErr =>
           /\ list' = list /\ store' = store
           /\ qs'.err = "llen" /\ qs'.QueueLength = 0 ]_vars
  /\ [](client = Nil <=> newClients = <<>>)

\* QueueStatus has returned 1 while two payloads were pushed and Run had
\* popped one of them.
C11_Witness ==
  /\ qs.called /\ qs.err = Nil /\ qs.QueueLength = 1
  /\ pushed = 2 /\ Len(pops) = 1 /\ Len(list) = 1

\* Both ids of ident have been computed.
IdentDone == ident.enq # Absent /\ ident.wrk # Absent

\* C12: the id Enqueue computes for a payload and the Job.ID a worker computes
\* for a payload are equal when the payloads have the same bytes, and differ,
\* as do the status keys, when the payloads differ in any byte or in length.
C12_Identity ==
  IdentDone =>
    /\ ident.a = ident.b => ident.enq = ident.wrk
    /\ ident.a # ident.b =>
         /\ ident.enq # ident.wrk
         /\ StatusKey(ident.enq) # StatusKey(ident.wrk)

\* The ids of two payloads that differ only in the lowest bit of the first
\* 5-bit group have been computed, and differ.
C12_Witness ==
  /\ IdentDone
  /\ ident.a = <<0, 255>> /\ ident.b = <<8, 255>>
  /\ ident.enq # ident.wrk

\* C13: a SetStatus whose Set the broker accepts returns nil and leaves its
\* own {code, progress} in the store, whatever the store held and whatever
\* another Job of the same identity wrote before (the earlier value is gone);
\* no state of the store or of the other worker keeps a SetStatus call from
\* succeeding; and the stored records change in no step that is not a write.
C13_LastWriterWins ==
  /\ [][ \A w \in WorkerIds, a \in StatusArgs :
           SetStatusOK(w, a[1], a[2]) =>
             /\ store'[StatusKey(wk[w].job.ID)] = Marshal(Status(a[1], a[2]))
             /\ wk'[w].err = Nil
             /\ \A k \in Keys : k # StatusKey(wk[w].job.ID) => store'[k] = store[k] ]_vars
  /\ [](\A w \in WorkerIds, a \in StatusArgs :
          MayCallSet(w, a[1], a[2]) => ENABLED SetStatusOK(w, a[1], a[2]))
  /\ [][ store' # store =>
           \/ \E w \in WorkerIds, a \in StatusArgs : SetStatusOK(w, a[1], a[2])
           \/ \E p \in Producers : EnqueueSetOK(p)
           \/ \E k \in Keys, v \in ForeignValues : ForeignSet(k, v) ]_vars

\* Two workers hold Jobs of the same identity; worker 0 set {1, 100}, then
\* worker 1 set {255, 0}: both calls returned nil and the store holds {255, 0}.
C13_Witness ==
  /\ wk[0].pc = "proc" /\ wk[1].pc = "proc"
  /\ wk[0].job.ID = wk[1].job.ID
  /\ wk[0].op = "SetStatus" /\ wk[0].err = Nil /\ wk[0].job.Status = Status(1, 100)
  /\ wk[1].op = "SetStatus" /\ wk[1].err = Nil /\ wk[1].job.Status = Status(255, 0)
  /\ store[StatusKey(wk[0].job.ID)] = Marshal(Status(255, 0))
  /\ NoFaultSoFar

\* The instance numbers for which the Processor was invoked, in the order of
\* the invocations.
ProcNs ==
  LET procs == SelectSeq(outcomes, LAMBDA o : o[2] = "proc")
  IN  [i \in 1..Len(procs) |-> procs[i][1]]

\* C14: Run pops the payloads in the order of their pushes, and still the
\* Processor may be invoked out of that order (the witness is such an
\* execution), but only with more than one worker, and only by overtaking a
\* payload that another worker has received and not yet loaded the status of.
C14_OrderNotGuaranteed ==
  /\ [](Increasing(pops))
  /\ [](~Increasing(ProcNs) => concurrency > 1)
  /\ [][ \A w \in WorkerIds :
           (WorkGetOK(w) /\ wk'[w].pc = "proc") =>
             \A i \in 1..Len(pops) :
               (pops[i] < wk[w].n /\ \A j \in 1..Len(outcomes) : outcomes[j][1] # pops[i])
                 => \E v \in WorkerIds \ {w} : wk[v].pc = "get" /\ wk[v].n = pops[i] ]_vars

\* P1 was pushed and popped before P2, and the Processor was invoked for P2
\* before it was invoked for P1.
C14_Witness ==
  /\ concurrency > 1
  /\ pops = <<1, 2>>
  /\ outcomes = << <<2, "proc">>, <<1, "proc">> >>
  /\ NoFaultSoFar

\* The payloads in the channel are the pops number i+1, i+2, ... of Run, in
\* that order.
SegmentOfPops(i) ==
  /\ i + Len(jobChannel) <= Len(pops)
  /\ \A j \in 1..Len(jobChannel) : jobChannel[j].n = pops[i + j]

\* C15: the channel never holds more payloads than its capacity; what it
\* holds are payloads Run has popped, in the order of the pops, with none
\* left out in between; it grows only by Run's send of the payload Run
\* popped last, at its end, and shrinks only by a worker's receive, at its
\* head.
C15_Buffer ==
  /\ [](Len(jobChannel) <= capacity)
  /\ [](\E i \in 0..Len(pops) : SegmentOfPops(i))
  /\ [](disp.pc = "send" =>
          /\ disp.held.n = pops[Len(pops)]
          /\ SegmentOfPops(Len(pops) - 1 - Len(jobChannel)))
  /\ [][ jobChannel' # jobChannel =>
           \/ DispatchSend /\ jobChannel' = Append(jobChannel, disp.held)
           \/ \E w \in WorkerIds : WorkRecv(w) /\ jobChannel' = Tail(jobChannel) ]_vars

\* The channel is full with the payloads popped first and second, in that
\* order, and Run holds the third.
C15_Witness ==
  /\ Len(jobChannel) = capacity
  /\ Ns(jobChannel) = <<1, 2>>
  /\ pops = <<1, 2, 3>>
  /\ disp.pc = "send" /\ disp.held.n = 3

\* C16: for every q.concurrency in 0..255, each iteration of Run's start loop
\* starts one worker and adds 1 to i without wrapping; the loop ends, with
\* exactly q.concurrency workers started, and no worker is started after it;
\* with q.concurrency = 0 the Processor is never invoked.
C16_WorkerCount ==
  /\ [][ RunSpawn => /\ disp.i < MaxUint8
                     /\ disp'.i = disp.i + 1
                     /\ spawned' = spawned + 1 ]_vars
  /\ [](spawned = disp.i /\ spawned <= concurrency)
  /\ [](disp.pc \in {"pop", "send"} => spawned = concurrency)
  /\ [][ disp.pc \in {"pop", "send"} => spawned' = spawned ]_vars
  /\ [](\A w \in WorkerIds : wk[w].pc # "off" <=> w < spawned)
  /\ [](concurrency = 0 => outcomes = <<>>)
  /\ (disp.pc = "spawn" ~> disp.pc = "pop")

\* Run with q.concurrency = 255 has left its start loop with 255 workers
\* started, and one of them has given the payload to the Processor.
C16_Witness ==
  /\ concurrency = MaxUint8
  /\ disp.pc = "pop" /\ disp.i = MaxUint8 /\ spawned = MaxUint8
  /\ outcomes = << <<1, "proc">> >>

\* C17: a GetStatus call never writes to the store; when the key is absent or
\* the Get fails it returns an error and leaves the Job's Status as it was;
\* when the stored value is malformed (it does not decode into a Status) it
\* returns an error; otherwise it returns nil and the Job's Status is the
\* stored record, that is, what the stored value decodes to.
C17_GetStatus ==
  [][ \A w \in WorkerIds :
        /\ (GetStatusOK(w) \/ GetStatusMissing(w) \/ GetStatusErr(w)) => store' = store
        /\ (GetStatusMissing(w) \/ GetStatusErr(w)) =>
             /\ wk'[w].err # Nil
             /\ wk'[w].job.Status = wk[w].job.Status
        /\ GetStatusOK(w) =>
             \E rec \in {Unmarshal(store[StatusKey(wk[w].job.ID)], Status(0, 0))} :
               IF rec.err # Nil
               THEN wk'[w].err # Nil
               ELSE wk'[w].err = Nil /\ wk'[w].job.Status = rec.st ]_vars

\* C18: while no broker call has failed and no foreign client has written, no
\* worker finds the status record of its payload missing.
C18_StatusBeforeLoad ==
  [][ \A w \in WorkerIds : NoFaultSoFar => ~WorkGetMissing(w) ]_vars

\* In how many places payload instance n is: held by Run, in the channel,
\* held by a worker that has not yet reached an outcome, or finished (once
\* per outcome recorded for it).
Places(n) ==
  (IF disp.pc = "send" /\ disp.held.n = n THEN 1 ELSE 0)
  + Cardinality({j \in 1..Len(jobChannel) : jobChannel[j].n = n})
  + Cardinality({w \in WorkerIds : wk[w].pc = "get" /\ wk[w].n = n})
  + Cardinality({i \in 1..Len(outcomes) : outcomes[i][1] = n})

\* C19: every payload instance Run has popped was popped once and is in
\* exactly one place: held by Run, in the channel, held by one worker, or
\* finished with one outcome; it is not on the list again; a Processor that
\* is running is the one invocation for its payload; and the outcomes are
\* never more than the pops.
C19_Accounting ==
  /\ \A i, j \in 1..Len(pops) : i # j => pops[i] # pops[j]
  /\ \A i \in 1..Len(pops) :
       /\ Places(pops[i]) = 1
       /\ \A j \in 1..Len(list) : list[j].n # pops[i]
  /\ \A i \in 1..Len(outcomes) : \E j \in 1..Len(pops) : pops[j] = outcomes[i][1]
  /\ \A w \in WorkerIds :
       wk[w].pc = "proc" =>
         /\ Count(outcomes, <<wk[w].n, "proc">>) = 1
         /\ \A v \in WorkerIds \ {w} : wk[v].pc \in {"get", "proc"} => wk[v].n # wk[w].n
  /\ Len(outcomes) <= Len(pops)

\* Two payloads were popped; one went to the error handler of one worker
\* and the other is being processed by the other worker.
C19_Witness ==
  /\ Len(pops) = 2 /\ Len(outcomes) = 2
  /\ \E i, j \in 1..2 : outcomes[i][2] = "err" /\ outcomes[j][2] = "proc"
  /\ \E w \in WorkerIds : wk[w].pc = "proc"
  /\ list = <<>> /\ jobChannel = <<>> /\ disp.pc = "pop"

\* C20, as amended: a SetStatus(code, progress) whose Set fails returns the
\* error and leaves the store unchanged, while the Job's Status holds
\* {code, progress}; the Status then differs from the stored record unless
\* that record was {code, progress} already.
C20_SetStatusFailure ==
  [][ \A w \in WorkerIds, a \in StatusArgs :
        SetStatusErr(w, a[1], a[2]) =>
          /\ wk'[w].err # Nil
          /\ store' = store
          /\ wk'[w].job.Status = Status(a[1], a[2])
          /\ store[StatusKey(wk[w].job.ID)] # Marshal(Status(a[1], a[2]))
               => Marshal(wk'[w].job.Status) # store'[StatusKey(wk[w].job.ID)] ]_vars

\* C20, as stated: after a SetStatus whose Set fails, the store is unchanged
\* and the Job's Status holds the new values and differs from the stored
\* record.
C20_Original ==
  [][ \A w \in WorkerIds, a \in StatusArgs :
        SetStatusErr(w, a[1], a[2]) =>
          /\ wk'[w].err # Nil
          /\ store' = store
          /\ wk'[w].job.Status = Status(a[1], a[2])
          /\ Marshal(wk'[w].job.Status) # store'[StatusKey(wk[w].job.ID)] ]_vars

\* A SetStatus(1, 100) has returned the error of its Set: the Job holds
\* {1, 100} and the store still holds {0, 0}.
C20_Witness ==
  \E w \in WorkerIds :
    /\ wk[w].pc = "proc" /\ wk[w].op = "SetStatus" /\ wk[w].err = "set"
    /\ wk[w].job.Status = Status(1, 100)
    /\ store[StatusKey(wk[w].job.ID)] = Marshal(Status(0, 0))

====
